---- MODULE Spec2Model ----
(***************************************************************************)
(* A model of the R8 CHIP-8 core: the Emulator (tick, load_rom,            *)
(* execute_opcode), its Display, Opcode decoding and RandGen, together     *)
(* with the Address, Memory, Stack and KeyBoard collaborators.             *)
(***************************************************************************)
EXTENDS Integers, Sequences, FiniteSets, TLC

VARIABLES
    pc,              \* Emulator.pc
    i,               \* Emulator.i
    v_registers,     \* Emulator.v_registers, indexed 0..15
    sound_timer,     \* Emulator.sound_timer
    delay_timer,     \* Emulator.delay_timer
    stack,           \* Emulator.stack, a sequence of addresses, top last
    memory,          \* Emulator.memory, the non-zero bytes: address -> byte
    vram,            \* Display.vram, the set of lit cells <<x, y>>
    updated,         \* Display.updated
    keyboard,        \* Emulator.keyboard, the set of keys that are set
    rand,            \* RandGen.state, 16 little-endian base-256 limbs
    state,           \* Emulator.state, [tag, x]
    result,          \* what the last call returned: "Ok", an error kind or "Panic"
    set_result,      \* the u8 the last Display::set returned, or -1
    log,             \* the pc and opcode of the last tick's debug! line, or NoLog
    lastCall,        \* the operation that made the last step
    overflow_checks, \* the build profile: TRUE when arithmetic overflow panics
    calls,           \* the number of calls made so far, in the runs that count them
    iter             \* the InvertIterator a consumer holds on the display, or NoIter

vars == <<pc, i, v_registers, sound_timer, delay_timer, stack, memory, vram,
          updated, keyboard, rand, state, result, set_result, log, lastCall,
          overflow_checks, calls, iter>>

----------------------------------------------------------------------------
(* Program constants *)

FLAGS_REGISTER == 15
REGISTER_COUNT == 16
WIDTH == 64
HEIGHT == 32
MEMORY_SIZE == 4096
ENTRY_POINT == 512
STACK_SIZE == 16
KEY_COUNT == 16
U8_BITS == 8
FONT_SPRITE_LEN == 5

\* the calls a run may make: of the key-wait programs, of the drawing
\* programs, of the call chains
KeyCalls == 10
DrawCalls == 8
ChainCalls == 37
LoadCalls == 12
OpsCalls == 12

\* the rows a caller may draw through the display in a run
MaxSets == 2

Regs == 0..(REGISTER_COUNT - 1)

----------------------------------------------------------------------------
(* Bit operations on u8 values *)

RECURSIVE Pow2(_)
Pow2(n) == IF n = 0 THEN 1 ELSE 2 * Pow2(n - 1)

\* bit k of a (k = 0 is the least significant)
BitAt(a, k) == (a \div Pow2(k)) % 2

RECURSIVE BitOr(_, _, _)
BitOr(a, b, k) ==
    IF k = U8_BITS THEN 0
    ELSE (IF BitAt(a, k) = 1 \/ BitAt(b, k) = 1 THEN Pow2(k) ELSE 0) + BitOr(a, b, k + 1)

RECURSIVE BitAnd(_, _, _)
BitAnd(a, b, k) ==
    IF k = U8_BITS THEN 0
    ELSE (IF BitAt(a, k) = 1 /\ BitAt(b, k) = 1 THEN Pow2(k) ELSE 0) + BitAnd(a, b, k + 1)

RECURSIVE BitXor(_, _, _)
BitXor(a, b, k) ==
    IF k = U8_BITS THEN 0
    ELSE (IF BitAt(a, k) # BitAt(b, k) THEN Pow2(k) ELSE 0) + BitXor(a, b, k + 1)

wrapping_add(a, b) == (a + b) % 256
wrapping_sub(a, b) == (a - b + 256) % 256

----------------------------------------------------------------------------
(* Opcode *)

\* Opcode::new: the big-endian word of the two fetched bytes
OpcodeNew(upper, lower) == upper * 256 + lower

nibbles(op) == << (op \div 4096) % 16, (op \div 256) % 16, (op \div 16) % 16, op % 16 >>

nnn(op) == op % 4096

kk_byte(op) == op % 256

\* The arm of execute_opcode's match that takes the opcode, first match first.
InstrLoose(op) ==
    LET n == nibbles(op) IN
    CASE n[1] = 0 /\ n[2] = 0 /\ n[3] = 14 /\ n[4] = 0  -> "CLS"
      [] n[1] = 0 /\ n[2] = 0 /\ n[3] = 14 /\ n[4] = 14 -> "RET"
      [] n[1] = 1 -> "JP"
      [] n[1] = 2 \/ n[1] = 0 -> "CALL"
      [] n[1] = 3 -> "SE_KK"
      [] n[1] = 4 -> "SNE_KK"
      [] n[1] = 5 -> "SE_XY"
      [] n[1] = 6 -> "LD_KK"
      [] n[1] = 7 -> "ADD_KK"
      [] n[1] = 8 /\ n[4] = 0 -> "LD_XY"
      [] n[1] = 8 /\ n[4] = 1 -> "OR"
      [] n[1] = 8 /\ n[4] = 2 -> "AND"
      [] n[1] = 8 /\ n[4] = 3 -> "XOR"
      [] n[1] = 8 /\ n[4] = 4 -> "ADD_XY"
      [] n[1] = 8 /\ n[4] = 5 -> "SUB"
      [] n[1] = 8 /\ n[4] = 6 -> "SHR"
      [] n[1] = 8 /\ n[4] = 7 -> "SUBN"
      [] n[1] = 8 /\ n[4] = 14 -> "SHL"
      [] n[1] = 9 -> "SNE_XY"
      [] n[1] = 10 -> "LD_I"
      [] n[1] = 11 -> "JP_V0"
      [] n[1] = 12 -> "RND"
      [] n[1] = 13 -> "DRW"
      [] n[1] = 14 /\ n[4] = 14 -> "SKP"
      [] n[1] = 14 /\ n[4] = 1 -> "SKNP"
      [] n[1] = 15 /\ n[4] = 7 -> "LD_X_DT"
      [] n[1] = 15 /\ n[4] = 10 -> "LD_X_K"
      [] n[1] = 15 /\ n[3] = 1 /\ n[4] = 5 -> "LD_DT_X"
      [] n[1] = 15 /\ n[4] = 8 -> "LD_ST_X"
      [] n[1] = 15 /\ n[4] = 14 -> "ADD_I"
      [] n[1] = 15 /\ n[4] = 9 -> "LD_F"
      [] n[1] = 15 /\ n[4] = 3 -> "LD_B"
      [] n[1] = 15 /\ n[3] = 5 /\ n[4] = 5 -> "LD_I_X"
      [] n[1] = 15 /\ n[3] = 6 /\ n[4] = 5 -> "LD_X_I"
      [] OTHER -> "UNRECOGNIZED"

Instr(op) ==
    LET n == nibbles(op) IN
    CASE n[1] = 0 /\ n[2] = 0 /\ n[3] = 14 /\ n[4] = 0  -> "CLS"
      [] n[1] = 0 /\ n[2] = 0 /\ n[3] = 14 /\ n[4] = 14 -> "RET"
      [] n[1] = 1 -> "JP"
      [] n[1] = 2 \/ n[1] = 0 -> "CALL"
      [] n[1] = 3 -> "SE_KK"
      [] n[1] = 4 -> "SNE_KK"
      [] n[1] = 5 /\ n[4] = 0 -> "SE_XY"
      [] n[1] = 6 -> "LD_KK"
      [] n[1] = 7 -> "ADD_KK"
      [] n[1] = 8 /\ n[4] = 0 -> "LD_XY"
      [] n[1] = 8 /\ n[4] = 1 -> "OR"
      [] n[1] = 8 /\ n[4] = 2 -> "AND"
      [] n[1] = 8 /\ n[4] = 3 -> "XOR"
      [] n[1] = 8 /\ n[4] = 4 -> "ADD_XY"
      [] n[1] = 8 /\ n[4] = 5 -> "SUB"
      [] n[1] = 8 /\ n[4] = 6 -> "SHR"
      [] n[1] = 8 /\ n[4] = 7 -> "SUBN"
      [] n[1] = 8 /\ n[4] = 14 -> "SHL"
      [] n[1] = 9 /\ n[4] = 0 -> "SNE_XY"
      [] n[1] = 10 -> "LD_I"
      [] n[1] = 11 -> "JP_V0"
      [] n[1] = 12 -> "RND"
      [] n[1] = 13 -> "DRW"
      [] n[1] = 14 /\ n[3] = 9 /\ n[4] = 14 -> "SKP"
      [] n[1] = 14 /\ n[3] = 10 /\ n[4] = 1 -> "SKNP"
      [] n[1] = 15 /\ n[3] = 0 /\ n[4] = 7 -> "LD_X_DT"
      [] n[1] = 15 /\ n[3] = 0 /\ n[4] = 10 -> "LD_X_K"
      [] n[1] = 15 /\ n[3] = 1 /\ n[4] = 5 -> "LD_DT_X"
      [] n[1] = 15 /\ n[3] = 1 /\ n[4] = 8 -> "LD_ST_X"
      [] n[1] = 15 /\ n[3] = 1 /\ n[4] = 14 -> "ADD_I"
      [] n[1] = 15 /\ n[3] = 2 /\ n[4] = 9 -> "LD_F"
      [] n[1] = 15 /\ n[3] = 3 /\ n[4] = 3 -> "LD_B"
      [] n[1] = 15 /\ n[3] = 5 /\ n[4] = 5 -> "LD_I_X"
      [] n[1] = 15 /\ n[3] = 6 /\ n[4] = 5 -> "LD_X_I"
      [] OTHER -> "UNRECOGNIZED"

----------------------------------------------------------------------------
(* Address: a pointer into the 12-bit address space *)

AddressFits(raw) == raw >= 0 /\ raw < MEMORY_SIZE

\* Address::add_assign: the sum, or -1 when it leaves the address space
add_assign(a, delta) == IF AddressFits(a + delta) THEN a + delta ELSE -1

----------------------------------------------------------------------------
(* Memory: 4096 bytes, held as the function of its non-zero bytes *)

FontData ==
    << 240, 144, 144, 144, 240,   32,  96,  32,  32, 112,
       240,  16, 240, 128, 240,  240,  16, 240,  16, 240,
       144, 144, 240,  16,  16,  240, 128, 240,  16, 240,
       240, 128, 240, 144, 240,  240,  16,  32,  64,  64,
       240, 144, 240, 144, 240,  240, 144, 240,  16, 240,
       240, 144, 240, 144, 144,  224, 144, 224, 144, 224,
       240, 128, 128, 128, 240,  224, 144, 144, 144, 224,
       240, 128, 240, 128, 240,  240, 128, 240, 128, 128 >>

\* Memory::new: the font table at the bottom, zero elsewhere
MemoryNew == [a \in 0..(Len(FontData) - 1) |-> FontData[a + 1]]

\* Index<Address>: one byte
MemRead(m, a) == IF a \in DOMAIN m THEN m[a] ELSE 0

\* the bytes of `bytes` copied to a, a+1, ...
MemCopyIn(m, a, bytes) ==
    LET rng == a..(a + Len(bytes) - 1)
        val(k) == IF k \in rng THEN bytes[k - a + 1] ELSE m[k]
        dom == {k \in (DOMAIN m) \cup rng : val(k) # 0}
    IN [k \in dom |-> val(k)]

\* Memory::read_range and Memory::write_range: whether the range lies in memory
RangeInBounds(a, len) == a + len <= MEMORY_SIZE

\* Memory::load_rom: the program space left for a ROM
RomCapacity == MEMORY_SIZE - ENTRY_POINT

\* A ROM is a byte stream, held like memory as its length and its non-zero
\* bytes: [len, data], data from 0-based offsets to bytes.
MemLoadRomOk(rom) == rom.len <= RomCapacity

MemLoadRom(rom) ==
    [a \in (DOMAIN MemoryNew) \cup {ENTRY_POINT + k : k \in DOMAIN rom.data} |->
        IF a >= ENTRY_POINT THEN rom.data[a - ENTRY_POINT] ELSE MemoryNew[a]]

\* crate::bcd: the three decimal digits of a byte
bcd(b) == << b \div 100, (b \div 10) % 10, b % 10 >>

----------------------------------------------------------------------------
(* KeyBoard: the collaborator's key bits; the core only reads them *)

is_set(kb, key) == key \in kb

----------------------------------------------------------------------------
(* RandGen: state' = (multiplier * state + increment) % modulus on u128 *)

LIMBS == 16

\* 6364136223846793005 and 1442695040888963407, little-endian base 256
Multiplier == << 45, 127, 149, 76, 45, 244, 81, 88, 0, 0, 0, 0, 0, 0, 0, 0 >>
Increment  == << 79, 129, 103, 247, 126, 123, 5, 20, 0, 0, 0, 0, 0, 0, 0, 0 >>

RECURSIVE ColSum(_, _, _)
ColSum(s, k, a) ==
    IF a > k THEN 0 ELSE Multiplier[a + 1] * s[k - a + 1] + ColSum(s, k, a + 1)

RECURSIVE MulAdd(_, _, _, _)
MulAdd(s, k, carry, acc) ==
    IF k = LIMBS THEN acc
    ELSE LET t == ColSum(s, k, 0) + Increment[k + 1] + carry
         IN MulAdd(s, k + 1, t \div 256, Append(acc, t % 256))

\* x % u128::MAX: only u128::MAX itself is changed, to 0
ModMax(s) == IF \A k \in 1..LIMBS : s[k] = 255 THEN [k \in 1..LIMBS |-> 0] ELSE s

\* RandGen::next: the new state; the byte returned is its lowest limb
rand_next(s) == ModMax(MulAdd(s, 0, 0, << >>))

\* rand_byte taking the second byte of the state
rand_byte_second(s) == s[2]

\* `state.0 as u8`: the lowest byte of the state
rand_byte(s) == s[1]

----------------------------------------------------------------------------
(* Display *)

\* Display::clear / Display::new: no cell lit
VramClear == {}

\* Display::get
get(vr, x, y) == <<x, y>> \in vr

\* One pass of the loop of Display::set, from bit_index on. `checks` is the
\* build's overflow checking: with it, x + bit_index past u8 panics; without
\* it the sum wraps.
RECURSIVE SetBits(_, _, _, _, _, _, _)
SetBits(vr, x, y, value, bit_index, res, checks) ==
    IF bit_index = U8_BITS THEN [vram |-> vr, result |-> res, panic |-> FALSE]
    ELSE IF checks /\ x + bit_index > 255 THEN [vram |-> vr, result |-> res, panic |-> TRUE]
    ELSE LET x_usize == ((x + bit_index) % 256) % WIDTH
             pixel == BitAt(value, 7 - bit_index) = 1
             old == get(vr, x_usize, y)
             new == (old # pixel)
             res2 == IF (~new) /\ (~pixel) THEN 1 ELSE res
             vr2 == IF new THEN vr \cup {<<x_usize, y>>} ELSE vr \ {<<x_usize, y>>}
         IN SetBits(vr2, x, y, value, bit_index + 1, res2, checks)

\* Display::set(x, y, value)
set(vr, x, y, value, checks) == SetBits(vr, x, y % HEIGHT, value, 0, 0, checks)

\* Display::grid: a new InvertIterator, at current = (0, 0). Beside `current`
\* the record keeps what the consumer saw: the last item and the count of
\* values yielded so far.
grid == [current |-> <<0, 0>>, item |-> "-", yielded |-> 0]

NoIter == [current |-> <<-1, -1>>, item |-> "-", yielded |-> 0]

ItemOf(b) == IF b THEN "Some(true)" ELSE "Some(false)"

\* InvertIterator::next walking a column down before moving to the next column
InvertIteratorNextByColumn(vr, it) ==
    LET c1 == IF it.current[2] >= HEIGHT THEN <<it.current[1] + 1, 0>> ELSE it.current
    IN IF c1[1] >= WIDTH THEN [current |-> c1, item |-> "None", yielded |-> it.yielded]
       ELSE [current |-> <<c1[1], c1[2] + 1>>, item |-> ItemOf(get(vr, c1[1], c1[2])),
             yielded |-> it.yielded + 1]

\* InvertIterator::next
InvertIteratorNext(vr, it) ==
    LET c1 == IF it.current[1] >= WIDTH THEN <<0, it.current[2] + 1>> ELSE it.current
    IN IF c1[2] >= HEIGHT THEN [current |-> c1, item |-> "None", yielded |-> it.yielded]
       ELSE [current |-> <<c1[1] + 1, c1[2]>>, item |-> ItemOf(get(vr, c1[1], c1[2])),
             yielded |-> it.yielded + 1]

----------------------------------------------------------------------------
(* Stack: a LIFO of at most STACK_SIZE return addresses *)

\* StackFull letting one more address in
StackFullLoose(st) == Len(st) > STACK_SIZE

StackFull(st) == Len(st) >= STACK_SIZE

push(st, addr) == Append(st, addr)

StackTop(st) == st[Len(st)]

pop(st) == SubSeq(st, 1, Len(st) - 1)

----------------------------------------------------------------------------
(* Emulator: the record of its fields, and what a call returns *)

NoLog == [pc |-> -1, op |-> -1]

StateNew == [tag |-> "New", x |-> 0]
StateRunning == [tag |-> "Running", x |-> 0]
StateWaitingKey(x) == [tag |-> "WaitingKey", x |-> x]

Ok(e) == [e |-> e, r |-> "Ok"]
Err(e, kind) == [e |-> e, r |-> kind]

V(e, reg) == e.v_registers[reg]

SetV(e, reg, val) == [e EXCEPT !.v_registers[reg] = val]

\* Display::clear leaving the updated flag as it was
clear_silent(e) == [e EXCEPT !.vram = VramClear]

\* Display::clear unlighting the first row only
clear_first_row(e) == [e EXCEPT !.vram = {c \in e.vram : c[2] # 0}, !.updated = TRUE]

\* Display::clear on the emulator's display: updated = true, no cell lit
clear(e) == [e EXCEPT !.vram = VramClear, !.updated = TRUE]

\* jump_if! skipping whatever the condition
jump_if_always(e, cond) ==
    LET p == add_assign(e.pc, 2)
    IN IF p = -1 THEN Err(e, "AddressOutOfRange") ELSE Ok([e EXCEPT !.pc = p])

\* jump_if!: pc.add_assign(2)? when the condition holds
jump_if(e, cond) ==
    IF cond
    THEN LET p == add_assign(e.pc, 2)
         IN IF p = -1 THEN Err(e, "AddressOutOfRange") ELSE Ok([e EXCEPT !.pc = p])
    ELSE Ok(e)

\* The loop of DXYN from `row` on; x and y are the coordinates read before it.
RECURSIVE DrawRows(_, _, _, _, _, _)
DrawRows(e, x, y, n, row, checks) ==
    IF row = n THEN Ok(e)
    ELSE IF ~AddressFits(e.i + row) THEN Err(e, "AddressOutOfRange")
    ELSE LET d == set(e.vram, x, (y % HEIGHT) + row, MemRead(e.memory, e.i + row), checks)
             e2 == [e EXCEPT !.vram = d.vram, !.updated = TRUE]
         IN IF d.panic THEN Err(e2, "Panic")
            ELSE DrawRows(SetV(e2, FLAGS_REGISTER, BitOr(V(e2, FLAGS_REGISTER), d.result, 0)),
                          x, y, n, row + 1, checks)

\* 00EE: pc = stack.pop()?
op_ret(e) ==
    IF Len(e.stack) = 0 THEN Err(e, "StackUnderflow")
    ELSE Ok([e EXCEPT !.pc = StackTop(e.stack), !.stack = pop(e.stack)])

\* op_call pushing the address of the call itself
op_call_old_pc(e, op) ==
    IF StackFull(e.stack) THEN Err(e, "StackOverflow")
    ELSE Ok([e EXCEPT !.stack = push(e.stack, e.pc - 2), !.pc = nnn(op)])

\* 2NNN and 0NNN: stack.push(pc)?; pc = nnn
op_call(e, op) ==
    IF StackFull(e.stack) THEN Err(e, "StackOverflow")
    ELSE Ok([e EXCEPT !.stack = push(e.stack, e.pc), !.pc = nnn(op)])

\* DXYN: VF = 0, then the coordinates are read and the rows drawn
op_drw(e, x, y, n, checks) ==
    LET e2 == SetV(e, FLAGS_REGISTER, 0)
    IN DrawRows(e2, V(e2, x), V(e2, y), n, 0, checks)

\* 8XY4 writing the flag before the sum
op_add_xy_flag_first(e, x, y) ==
    LET sum == V(e, x) + V(e, y)
        e2 == SetV(e, FLAGS_REGISTER, IF sum > 255 THEN 1 ELSE 0)
    IN Ok(SetV(e2, x, sum % 256))

\* 8XY4: Vx = low byte of Vx + Vy, then VF = carry
op_add_xy(e, x, y) ==
    LET sum == V(e, x) + V(e, y)
        e2 == SetV(e, x, sum % 256)
    IN Ok(SetV(e2, FLAGS_REGISTER, IF sum > 255 THEN 1 ELSE 0))

\* 8XY5: VF = (Vx > Vy), then Vx = Vx.wrapping_sub(Vy), both read after VF is written
op_sub_xy(e, x, y) ==
    LET e2 == SetV(e, FLAGS_REGISTER, IF V(e, x) > V(e, y) THEN 1 ELSE 0)
    IN Ok(SetV(e2, x, wrapping_sub(V(e2, x), V(e2, y))))

\* BNNN as an absolute jump to nnn + V0
op_jp_v0_absolute(e, op) ==
    LET p == add_assign(0, nnn(op) + V(e, 0))
    IN IF p = -1 THEN Err(e, "AddressOutOfRange") ELSE Ok([e EXCEPT !.pc = p])

\* BNNN: pc.add_assign(nnn + V0)?
op_jp_v0(e, op) ==
    LET p == add_assign(e.pc, nnn(op) + V(e, 0))
    IN IF p = -1 THEN Err(e, "AddressOutOfRange") ELSE Ok([e EXCEPT !.pc = p])

\* FX0A: state = WaitingKey { x }
op_wait_key(e, x) == Ok([e EXCEPT !.state = StateWaitingKey(x)])

\* The match of execute_opcode, after the pc increment.
exec_body(e, kb, op, checks) ==
    LET n == nibbles(op)
        x == n[2]
        y == n[3]
        ins == Instr(op)
    IN CASE ins = "CLS" -> Ok(clear(e))
         [] ins = "RET" -> op_ret(e)
         [] ins = "JP" -> Ok([e EXCEPT !.pc = nnn(op)])
         [] ins = "CALL" -> op_call(e, op)
         [] ins = "SE_KK" -> jump_if(e, V(e, x) = kk_byte(op))
         [] ins = "SNE_KK" -> jump_if(e, V(e, x) # kk_byte(op))
         [] ins = "SE_XY" -> jump_if(e, V(e, x) = V(e, y))
         [] ins = "LD_KK" -> Ok(SetV(e, x, kk_byte(op)))
         [] ins = "ADD_KK" -> Ok(SetV(e, x, wrapping_add(V(e, x), kk_byte(op))))
         [] ins = "LD_XY" -> Ok(SetV(e, x, V(e, y)))
         [] ins = "OR" -> Ok(SetV(e, x, BitOr(V(e, x), V(e, y), 0)))
         [] ins = "AND" -> Ok(SetV(e, x, BitAnd(V(e, x), V(e, y), 0)))
         [] ins = "XOR" -> Ok(SetV(e, x, BitXor(V(e, x), V(e, y), 0)))
         [] ins = "ADD_XY" -> op_add_xy(e, x, y)
         [] ins = "SUB" -> op_sub_xy(e, x, y)
         [] ins = "SHR" ->
              LET e2 == SetV(e, FLAGS_REGISTER, V(e, x) % 2)
              IN Ok(SetV(e2, x, V(e2, x) \div 2))
         [] ins = "SUBN" ->
              LET e2 == SetV(e, FLAGS_REGISTER, IF V(e, y) > V(e, x) THEN 1 ELSE 0)
              IN Ok(SetV(e2, x, wrapping_sub(V(e2, y), V(e2, x))))
         [] ins = "SHL" ->
              LET e2 == SetV(e, FLAGS_REGISTER, (V(e, x) \div 128) % 2)
              IN Ok(SetV(e2, x, (V(e2, x) * 2) % 256))
         [] ins = "SNE_XY" -> jump_if(e, V(e, x) # V(e, y))
         [] ins = "LD_I" -> Ok([e EXCEPT !.i = nnn(op)])
         [] ins = "JP_V0" -> op_jp_v0(e, op)
         [] ins = "RND" ->
              LET s == rand_next(e.rand)
                  e2 == [e EXCEPT !.rand = s]
              IN Ok(SetV(e2, x, BitAnd(rand_byte(s), kk_byte(op), 0)))
         [] ins = "DRW" -> op_drw(e, x, y, n[4], checks)
         [] ins = "SKP" -> jump_if(e, is_set(kb, V(e, x)))
         [] ins = "SKNP" -> jump_if(e, ~is_set(kb, V(e, x)))
         [] ins = "LD_X_DT" -> Ok(SetV(e, x, e.delay_timer))
         [] ins = "LD_X_K" -> op_wait_key(e, x)
         [] ins = "LD_DT_X" -> Ok([e EXCEPT !.delay_timer = V(e, x)])
         [] ins = "LD_ST_X" -> Ok([e EXCEPT !.sound_timer = V(e, x)])
         [] ins = "ADD_I" ->
              LET a == add_assign(e.i, V(e, x))
              IN IF a = -1 THEN Err(e, "AddressOutOfRange") ELSE Ok([e EXCEPT !.i = a])
         [] ins = "LD_F" -> Ok([e EXCEPT !.i = V(e, x) * FONT_SPRITE_LEN])
         [] ins = "LD_B" ->
              IF ~RangeInBounds(e.i, 3) THEN Err(e, "MemoryOutOfBounds")
              ELSE Ok([e EXCEPT !.memory = MemCopyIn(e.memory, e.i, bcd(V(e, x)))])
         [] ins = "LD_I_X" ->
              IF ~RangeInBounds(e.i, x + 1) THEN Err(e, "MemoryOutOfBounds")
              ELSE Ok([e EXCEPT !.memory =
                          MemCopyIn(e.memory, e.i, [k \in 1..(x + 1) |-> V(e, k - 1)])])
         [] ins = "LD_X_I" ->
              IF ~RangeInBounds(e.i, x + 1) THEN Err(e, "MemoryOutOfBounds")
              ELSE Ok([e EXCEPT !.v_registers =
                          [r \in Regs |-> IF r <= x THEN MemRead(e.memory, e.i + r)
                                          ELSE e.v_registers[r]]])
         [] OTHER -> Ok(e)

\* Emulator::execute_opcode
execute_opcode(e, kb, op, checks) ==
    LET p == add_assign(e.pc, 2)
    IN IF p = -1 THEN Err(e, "AddressOutOfRange")
       ELSE exec_body([e EXCEPT !.pc = p], kb, op, checks)

\* Emulator::fetch_opcode: the opcode at pc, or -1 when the two bytes are
\* not both inside memory
fetch_opcode(e) ==
    IF ~RangeInBounds(e.pc, 2) THEN -1
    ELSE OpcodeNew(MemRead(e.memory, e.pc), MemRead(e.memory, e.pc + 1))

\* the timers' step of tick without the test for zero
dec_timer_wrapping(t) == (t + 255) % 256

\* the timers' step of tick
dec_timer(t) == IF t > 0 THEN t - 1 ELSE t

\* find_key taking the highest set key
find_key_highest(kb) ==
    IF \E k \in 0..(KEY_COUNT - 1) : is_set(kb, k)
    THEN CHOOSE k \in 0..(KEY_COUNT - 1) :
            is_set(kb, k) /\ \A j \in 0..(KEY_COUNT - 1) : is_set(kb, j) => k >= j
    ELSE -1

\* find_key falling back to key 0 when no key is set
find_key_default(kb) ==
    IF \E k \in 0..(KEY_COUNT - 1) : is_set(kb, k)
    THEN CHOOSE k \in 0..(KEY_COUNT - 1) :
            is_set(kb, k) /\ \A j \in 0..(KEY_COUNT - 1) : is_set(kb, j) => k <= j
    ELSE 0

\* find_key scanning from key 1
find_key_from_one(kb) ==
    IF \E k \in 1..(KEY_COUNT - 1) : is_set(kb, k)
    THEN CHOOSE k \in 1..(KEY_COUNT - 1) :
            is_set(kb, k) /\ \A j \in 1..(KEY_COUNT - 1) : is_set(kb, j) => k <= j
    ELSE -1

\* the key found by (0..=0xF).find(is_set), or -1
find_key(kb) ==
    IF \E k \in 0..(KEY_COUNT - 1) : is_set(kb, k)
    THEN CHOOSE k \in 0..(KEY_COUNT - 1) :
            is_set(kb, k) /\ \A j \in 0..(KEY_COUNT - 1) : is_set(kb, j) => k <= j
    ELSE -1

\* tick_run fetching before the timers are stepped
tick_run_fetch_first(e, kb, checks) ==
    LET op == fetch_opcode(e)
        e2 == [e EXCEPT !.sound_timer = dec_timer(e.sound_timer),
                        !.delay_timer = dec_timer(e.delay_timer)]
    IN IF op = -1 THEN [e |-> e, r |-> "MemoryOutOfBounds", log |-> NoLog]
       ELSE LET o == execute_opcode(e2, kb, op, checks)
            IN [e |-> o.e, r |-> o.r, log |-> [pc |-> e2.pc, op |-> op]]

\* tick from the timers on (state Running, or a key wait that found its key)
tick_run(e, kb, checks) ==
    LET e2 == [e EXCEPT !.sound_timer = dec_timer(e.sound_timer),
                        !.delay_timer = dec_timer(e.delay_timer)]
        op == fetch_opcode(e2)
    IN IF op = -1 THEN [e |-> e2, r |-> "MemoryOutOfBounds", log |-> NoLog]
       ELSE LET o == execute_opcode(e2, kb, op, checks)
            IN [e |-> o.e, r |-> o.r, log |-> [pc |-> e2.pc, op |-> op]]

\* tick with the timers stepped before the state is looked at
tick_timers_first(e, kb, checks) ==
    LET e2 == [e EXCEPT !.sound_timer = dec_timer(e.sound_timer),
                        !.delay_timer = dec_timer(e.delay_timer)]
    IN CASE e.state.tag = "New" -> [e |-> e, r |-> "Ok", log |-> NoLog]
         [] e.state.tag = "WaitingKey" ->
              LET key == find_key(kb)
              IN IF key = -1 THEN [e |-> e2, r |-> "Ok", log |-> NoLog]
                 ELSE tick_run([SetV(e, e.state.x, key) EXCEPT !.state = StateRunning],
                               kb, checks)
         [] OTHER -> tick_run(e, kb, checks)

\* tick without the early return of state New
tick_new_runs(e, kb, checks) ==
    CASE e.state.tag = "WaitingKey" ->
           LET key == find_key(kb)
           IN IF key = -1 THEN [e |-> e, r |-> "Ok", log |-> NoLog]
              ELSE tick_run([SetV(e, e.state.x, key) EXCEPT !.state = StateRunning],
                            kb, checks)
      [] OTHER -> tick_run(e, kb, checks)

\* Emulator::tick
tick(e, kb, checks) ==
    CASE e.state.tag = "New" -> [e |-> e, r |-> "Ok", log |-> NoLog]
      [] e.state.tag = "WaitingKey" ->
           LET key == find_key(kb)
           IN IF key = -1 THEN [e |-> e, r |-> "Ok", log |-> NoLog]
              ELSE tick_run([SetV(e, e.state.x, key) EXCEPT !.state = StateRunning],
                            kb, checks)
      [] OTHER -> tick_run(e, kb, checks)

\* load_rom taking the Running state before the ROM is accepted
load_rom_state_first(e, rom, keep) ==
    LET e2 == [e EXCEPT !.pc = ENTRY_POINT, !.i = 0, !.delay_timer = 0,
                        !.sound_timer = 0,
                        !.v_registers = [r \in Regs |-> 0],
                        !.stack = << >>, !.vram = VramClear, !.updated = TRUE,
                        !.state = StateRunning]
    IN IF ~MemLoadRomOk(rom)
       THEN Err([e2 EXCEPT !.memory = IF keep THEN e.memory ELSE MemoryNew], "RomTooLarge")
       ELSE Ok([e2 EXCEPT !.memory = MemLoadRom(rom)])

\* Emulator::load_rom; `keep` is whether a refused ROM leaves memory as it was
load_rom(e, rom, keep) ==
    LET e2 == clear([e EXCEPT !.pc = ENTRY_POINT, !.i = 0, !.delay_timer = 0,
                              !.sound_timer = 0,
                              !.v_registers = [r \in Regs |-> 0],
                              !.stack = << >>])
    IN IF ~MemLoadRomOk(rom)
       THEN Err([e2 EXCEPT !.memory = IF keep THEN e.memory ELSE MemoryNew], "RomTooLarge")
       ELSE Ok([e2 EXCEPT !.memory = MemLoadRom(rom), !.state = StateRunning])

----------------------------------------------------------------------------
(* The state machine: one emulator, its caller and its keyboard *)

Self ==
    [pc |-> pc, i |-> i, v_registers |-> v_registers, sound_timer |-> sound_timer,
     delay_timer |-> delay_timer, stack |-> stack, memory |-> memory, vram |-> vram,
     updated |-> updated, rand |-> rand, state |-> state]

Commit(e) ==
    /\ pc' = e.pc
    /\ i' = e.i
    /\ v_registers' = e.v_registers
    /\ sound_timer' = e.sound_timer
    /\ delay_timer' = e.delay_timer
    /\ stack' = e.stack
    /\ memory' = e.memory
    /\ vram' = e.vram
    /\ updated' = e.updated
    /\ rand' = e.rand
    /\ state' = e.state

\* get_epoch_micros: what RandGen::new takes as its seed, the microseconds
\* the clock reads since the epoch. The clock counts seconds in an i64, so a
\* reading is any value below 2^63 * 10^6; 5555, which stands in for a clock
\* before the epoch, is one of these values
Seeds ==
    { s \in [1..LIMBS -> 0..255] :
        /\ \A k \in 12..LIMBS : s[k] = 0
        /\ s[9] + 256 * s[10] + 65536 * s[11] < 500000 }

\* Emulator::new, in either build profile
InitWith(seeds) ==
    /\ pc = ENTRY_POINT
    /\ i = 0
    /\ v_registers = [r \in Regs |-> 0]
    /\ sound_timer = 0
    /\ delay_timer = 0
    /\ stack = << >>
    /\ memory = MemoryNew
    /\ vram = VramClear
    /\ updated = FALSE
    /\ keyboard = {}
    /\ rand \in seeds
    /\ state = StateNew
    /\ result = "None"
    /\ set_result = -1
    /\ log = NoLog
    /\ lastCall = << "new" >>
    /\ overflow_checks \in BOOLEAN
    /\ calls = 0
    /\ iter = NoIter

Alive == result # "Panic"

\* the caller loads a ROM
LoadRom(rom) ==
    /\ Alive
    /\ \E keep \in (IF MemLoadRomOk(rom) THEN {TRUE} ELSE BOOLEAN) :
         LET o == load_rom(Self, rom, keep)
         IN Commit(o.e) /\ result' = o.r
    /\ lastCall' = << "load_rom", rom.len >>
    /\ calls' = calls + 1
    /\ iter' = NoIter
    /\ UNCHANGED <<keyboard, log, set_result, overflow_checks>>

\* one call of tick
TickCall ==
    /\ Alive
    /\ LET o == tick(Self, keyboard, overflow_checks)
       IN Commit(o.e) /\ result' = o.r /\ log' = o.log
    /\ lastCall' = << "tick" >>
    /\ iter' = NoIter
    /\ UNCHANGED <<keyboard, set_result, overflow_checks>>

\* the caller ticks the emulator, in a run of counted calls
Tick == TickCall /\ calls' = calls + 1

\* the caller ticks the emulator, in a run that goes on for ever
TickOn == TickCall /\ UNCHANGED calls

\* the caller executes one opcode directly
ExecuteOpcode(op) ==
    /\ Alive
    /\ LET o == execute_opcode(Self, keyboard, op, overflow_checks)
       IN Commit(o.e) /\ result' = o.r
    /\ lastCall' = << "execute_opcode", op >>
    /\ calls' = calls + 1
    /\ iter' = NoIter
    /\ UNCHANGED <<keyboard, log, set_result, overflow_checks>>

\* the caller draws one sprite row through the public display
DisplaySet(x, y, value) ==
    /\ Alive
    /\ LET d == set(vram, x, y, value, overflow_checks)
       IN /\ vram' = d.vram
          /\ updated' = TRUE
          /\ result' = IF d.panic THEN "Panic" ELSE "Ok"
          /\ set_result' = IF d.panic THEN -1 ELSE d.result
    /\ lastCall' = << "set", x, y, value >>
    /\ calls' = calls + 1
    /\ iter' = NoIter
    /\ UNCHANGED <<pc, i, v_registers, sound_timer, delay_timer, stack, memory,
                   rand, state, keyboard, log, overflow_checks>>

\* the keyboard collaborator sets and clears keys
SetKeys(ks) ==
    /\ Alive
    /\ keyboard # ks
    /\ keyboard' = ks
    /\ lastCall' = << "keyboard" >>
    /\ UNCHANGED <<pc, i, v_registers, sound_timer, delay_timer, stack, memory, vram,
                   updated, rand, state, result, set_result, log, overflow_checks,
                   calls, iter>>

\* the display's consumer has redrawn and resets the public updated flag
Acknowledge ==
    /\ Alive
    /\ updated
    /\ updated' = FALSE
    /\ lastCall' = << "acknowledge" >>
    /\ iter' = NoIter
    /\ UNCHANGED <<pc, i, v_registers, sound_timer, delay_timer, stack, memory, vram,
                   keyboard, rand, state, result, set_result, log, overflow_checks,
                   calls>>

\* the display's consumer takes a new iterator over the grid
Grid ==
    /\ Alive
    /\ iter' = grid
    /\ lastCall' = << "grid" >>
    /\ UNCHANGED <<pc, i, v_registers, sound_timer, delay_timer, stack, memory, vram,
                   updated, keyboard, rand, state, result, set_result, log,
                   overflow_checks, calls>>

\* the consumer asks its iterator for the next cell
GridNext ==
    /\ Alive
    /\ iter # NoIter
    /\ iter' = InvertIteratorNext(vram, iter)
    /\ lastCall' = << "next" >>
    /\ UNCHANGED <<pc, i, v_registers, sound_timer, delay_timer, stack, memory, vram,
                   updated, keyboard, rand, state, result, set_result, log,
                   overflow_checks, calls>>

----------------------------------------------------------------------------
(* ROM images *)

\* the ROM holding a sequence of big-endian opcode words
Rom(ws) ==
    LET byte(k) == IF k % 2 = 0 THEN ws[(k \div 2) + 1] \div 256
                   ELSE ws[(k \div 2) + 1] % 256
    IN [len |-> 2 * Len(ws),
        data |-> [k \in {j \in 0..(2 * Len(ws) - 1) : byte(j) # 0} |-> byte(k)]]

\* a ROM of `len` bytes: a jump to `at`, zeros, and the word `w` at address `at`
RomJumpTo(len, at, w) ==
    LET byte(k) == CASE k = 0 -> (\h1000 + at) \div 256
                     [] k = 1 -> (\h1000 + at) % 256
                     [] k = at - ENTRY_POINT -> w \div 256
                     [] k = at - ENTRY_POINT + 1 -> w % 256
                     [] OTHER -> 0
        used == {0, 1, at - ENTRY_POINT, at - ENTRY_POINT + 1}
    IN [len |-> len, data |-> [k \in {j \in used : byte(j) # 0} |-> byte(k)]]

\* a ROM one byte longer than the program space
RomOversized == [len |-> RomCapacity + 1, data |-> [k \in {0} |-> \h12]]

\* timers set, a key wait into V3, LD I, a key wait into V4, ADD V4, a loop
RomKeys == Rom(<< \h6A05, \hFA15, \hFA18, \hF30A, \hA123, \hF40A, \h7401, \h120E >>)

\* a key wait whose next instruction would start at the last byte of memory
RomKeysEnd == RomJumpTo(RomCapacity - 1, \hFFD, \hF00A)

----------------------------------------------------------------------------
(* SpecKey: load_rom, tick and the keyboard, over the key-wait programs *)

KeyRoms == { RomKeys, RomKeysEnd, RomOversized }

KeySets == { {}, {5}, {2, 7}, {0, 15} }

\* Emulator::new at any reading of the clock
Init == InitWith(Seeds)

\* the readings the emulators of the specifications are built at: the epoch
\* (0), its first microsecond (1), 5555, the readings 1730209560123456 and
\* 1793296515470807, and the last reading of the clock, 2^63 * 10^6 - 1
SeedSample ==
    { << 0, 0, 0, 0, 0, 0, 0, 0, 0, 0, 0, 0, 0, 0, 0, 0 >>,
      << 1, 0, 0, 0, 0, 0, 0, 0, 0, 0, 0, 0, 0, 0, 0, 0 >>,
      << 179, 21, 0, 0, 0, 0, 0, 0, 0, 0, 0, 0, 0, 0, 0, 0 >>,
      << 64, 216, 55, 206, 157, 37, 6, 0, 0, 0, 0, 0, 0, 0, 0, 0 >>,
      << 215, 21, 200, 97, 254, 94, 6, 0, 0, 0, 0, 0, 0, 0, 0, 0 >>,
      << 255, 255, 255, 255, 255, 255, 255, 255, 31, 161, 7, 0, 0, 0, 0, 0 >> }

\* a reading with its low byte replaced
WithLowByte(s, b) == [s EXCEPT ![1] = b]

\* the readings of SpecRand, whose programs draw random bytes: the sample,
\* and every low byte of a reading within 1730209560.123 s
RandSeeds ==
    SeedSample \cup
    { WithLowByte(<< 64, 216, 55, 206, 157, 37, 6, 0, 0, 0, 0, 0, 0, 0, 0, 0 >>, b) :
        b \in 0..255 }

\* the emulators built at the readings `seeds`
Built(seeds) == rand \in seeds /\ Init

NextKey ==
    \/ calls < KeyCalls /\ \E rom \in KeyRoms : LoadRom(rom)
    \/ calls < KeyCalls /\ Tick
    \/ \E ks \in KeySets : SetKeys(ks)

SpecKey == Built(SeedSample) /\ [][NextKey]_vars

TickStep == lastCall'[1] = "tick"

\* what tick leaves alone when it returns at once
TickIdle ==
    /\ pc' = pc /\ i' = i /\ v_registers' = v_registers
    /\ sound_timer' = sound_timer /\ delay_timer' = delay_timer
    /\ stack' = stack /\ memory' = memory /\ vram' = vram /\ updated' = updated
    /\ rand' = rand /\ state' = state /\ keyboard' = keyboard
    /\ result' = "Ok"

\* C1: a tick in WaitingKey{x} with no key set returns Ok and changes neither
\* pc, the timers, the V registers, I, the stack, memory, the display nor the
\* state, however many such ticks follow one another.
C1_WaitingNoKeyIdle ==
    [][(TickStep /\ state.tag = "WaitingKey" /\ keyboard = {}) => TickIdle]_vars

\* an idle tick has been made while waiting, with both timers still running
C1_Witness ==
    /\ state.tag = "WaitingKey" /\ keyboard = {}
    /\ lastCall = << "tick" >> /\ log = NoLog
    /\ delay_timer > 0 /\ sound_timer > 0
    /\ calls >= 7

MinKey == CHOOSE k \in keyboard : \A j \in keyboard : k <= j

WordAt(a) == MemRead(memory, a) * 256 + MemRead(memory, a + 1)

StepDown(t) == IF t = 0 THEN 0 ELSE t - 1

\* C2: a tick in WaitingKey{x} with a key set stores the lowest set key in Vx,
\* becomes Running and goes on, in the same tick, exactly as a tick of that
\* Running emulator does: the timers are stepped and the instruction at pc is
\* fetched and executed.
C2_KeyResumesSameTick ==
    [][(TickStep /\ state.tag = "WaitingKey" /\ keyboard # {}) =>
         LET resumed == [SetV(Self, state.x, MinKey) EXCEPT !.state = StateRunning]
             o == tick(resumed, keyboard, overflow_checks)
             ins == Instr(WordAt(pc))
         IN /\ Self' = o.e /\ result' = o.r /\ log' = o.log
            /\ (pc + 2 <= MEMORY_SIZE => log' = [pc |-> pc, op |-> WordAt(pc)])
            /\ (~(pc + 2 <= MEMORY_SIZE /\ pc + 2 < MEMORY_SIZE /\ ins = "LD_DT_X")
                  => delay_timer' = StepDown(delay_timer))
            /\ (~(pc + 2 <= MEMORY_SIZE /\ pc + 2 < MEMORY_SIZE /\ ins = "LD_ST_X")
                  => sound_timer' = StepDown(sound_timer))
            /\ (pc + 2 < MEMORY_SIZE /\ ins = "LD_I" =>
                  /\ v_registers' = [v_registers EXCEPT ![state.x] = MinKey]
                  /\ state' = StateRunning
                  /\ pc' = pc + 2
                  /\ i' = WordAt(pc) % 4096
                  /\ result' = "Ok")
            /\ (pc + 2 < MEMORY_SIZE /\ ins = "LD_X_K" =>
                  state' = StateWaitingKey((WordAt(pc) \div 256) % 16))
            /\ (pc + 2 >= MEMORY_SIZE =>
                  /\ v_registers' = [v_registers EXCEPT ![state.x] = MinKey]
                  /\ state' = StateRunning
                  /\ result' # "Ok")
    ]_vars

\* the tick that saw keys 2 and 7 stored 2 in V3 and ran the LD I after the wait
C2_Witness ==
    /\ lastCall = << "tick" >> /\ log = [pc |-> \h208, op |-> \hA123]
    /\ keyboard = {2, 7} /\ v_registers[3] = 2 /\ i = \h123
    /\ state = StateRunning /\ result = "Ok"

\* C3 as stated: the state changes only from New to Running by load_rom, from
\* Running to WaitingKey by FX0A, and from WaitingKey to Running inside a tick
\* that sees a key set (a tick that resumes with FX0A takes the last two edges
\* one after the other); load_rom never moves WaitingKey to Running.
C3_Original ==
    [][state' # state =>
         \/ /\ state.tag = "New" /\ state' = StateRunning
            /\ lastCall'[1] = "load_rom"
         \/ /\ state.tag = "Running" /\ state'.tag = "WaitingKey"
            /\ TickStep /\ Instr(log'.op) = "LD_X_K"
         \/ /\ state.tag = "WaitingKey" /\ state' = StateRunning
            /\ TickStep /\ keyboard # {}
         \/ /\ state.tag = "WaitingKey" /\ state'.tag = "WaitingKey"
            /\ TickStep /\ keyboard # {} /\ Instr(log'.op) = "LD_X_K"
    ]_vars

\* C3 amended: the same edges, and a load_rom that succeeds moves New and
\* WaitingKey alike to Running; a load_rom that fails changes no state, and
\* nothing returns to New.
C3_StateEdges ==
    [][state' # state =>
         \/ /\ state' = StateRunning
            /\ lastCall'[1] = "load_rom" /\ result' = "Ok"
         \/ /\ state.tag = "Running" /\ state'.tag = "WaitingKey"
            /\ TickStep /\ Instr(log'.op) = "LD_X_K"
            /\ state'.x = (log'.op \div 256) % 16
         \/ /\ state.tag = "WaitingKey" /\ state' = StateRunning
            /\ TickStep /\ keyboard # {}
         \/ /\ state.tag = "WaitingKey" /\ state'.tag = "WaitingKey"
            /\ TickStep /\ keyboard # {} /\ Instr(log'.op) = "LD_X_K"
            /\ state'.x = (log'.op \div 256) % 16
    ]_vars

\* the last tick ran the FX0A of a key wait, and a load_rom has since moved
\* the emulator to Running
C3_Witness ==
    /\ state = StateRunning /\ lastCall[1] = "load_rom" /\ result = "Ok"
    /\ log = [pc |-> \h20A, op |-> \hF40A]

\* C4: on a fresh emulator (state New) a tick returns Ok and changes nothing,
\* whatever keys are set and however many ticks are made.
C4_NewTickIdle ==
    [][(TickStep /\ state.tag = "New") => TickIdle]_vars

\* several ticks have been made on a fresh emulator with keys set
C4_Witness ==
    /\ state = StateNew /\ lastCall = << "tick" >> /\ calls >= 3
    /\ keyboard = {2, 7} /\ result = "Ok"

----------------------------------------------------------------------------
(* SpecSet: rows drawn through Display::set on a fresh emulator's display *)

SetXs == {0, 5, 60, 250}
SetYs == {0, 31, 33}
SetValues == {\h00, \hFF, \h81, \h0F}

NextSet ==
    calls < MaxSets /\ \E x \in SetXs, y \in SetYs, value \in SetValues : DisplaySet(x, y, value)

SpecSet == Built(SeedSample) /\ [][NextSet]_vars

\* the eight cells a row at (x, y) covers, by bit index
TargetCell(x, y, b) == << (x + b) % WIDTH, y % HEIGHT >>

\* C5: Display::set returns 1 exactly when one of the 8 target cells was lit
\* before the call and is unlit after it, and 0 otherwise.
C5_SetReturnsErasure ==
    [][(lastCall'[1] = "set" /\ result' = "Ok") =>
         /\ set_result' \in {0, 1}
         /\ (set_result' = 1) <=>
               \E b \in 0..7 :
                  LET c == TargetCell(lastCall'[2], lastCall'[3], b)
                  IN c \in vram /\ c \notin vram'
    ]_vars

----------------------------------------------------------------------------
(* SpecDraw: load_rom and tick over programs that draw one sprite twice *)

\* I = 0x20A, V0 = x, V1 = y, DRW V0 V1 n twice, then the sprite's two bytes
DrawRom(x, y, n, sprite) ==
    Rom(<< \hA20A, \h6000 + x, \h6100 + y, \hD010 + n, \hD010 + n, sprite >>)

\* the same with I = at
DrawRomAt(at, x, y, n) ==
    Rom(<< \hA000 + at, \h6000 + x, \h6100 + y, \hD010 + n, \hD010 + n >>)

DrawRoms ==
    { DrawRom(5, 3, 2, \h80FF), DrawRom(5, 3, 2, \hFFFF), DrawRom(60, 31, 2, \h81C3),
      DrawRom(250, 63, 2, \hFF01), DrawRom(7, 40, 1, \h3C00), DrawRom(0, 0, 0, \hFFFF),
      DrawRomAt(\hFFF, 1, 1, 2), DrawRomAt(0, 62, 30, 5) }

NextDraw ==
    \/ calls < DrawCalls /\ \E rom \in DrawRoms : LoadRom(rom)
    \/ calls < DrawCalls /\ Tick

SpecDraw == Built(SeedSample) /\ [][NextDraw]_vars

\* the addresses of the two DRW of a DrawRom
FIRST_DRW == ENTRY_POINT + 6
SECOND_DRW == ENTRY_POINT + 8

Drawn(at) == lastCall = << "tick" >> /\ result = "Ok" /\ log.pc = at

SpriteHasBit(n) == \E r \in 0..(n - 1) : MemRead(memory, i + r) # 0

\* C6: the same sprite (with a set bit) drawn twice on a clear display leaves
\* VF = 0 after the first draw, and after the second VF = 1 and no cell lit.
C6_DrawTwice ==
    /\ (Drawn(FIRST_DRW) /\ SpriteHasBit(log.op % 16)) => v_registers[FLAGS_REGISTER] = 0
    /\ (Drawn(SECOND_DRW) /\ SpriteHasBit(log.op % 16)) =>
          (v_registers[FLAGS_REGISTER] = 1 /\ vram = VramClear)

\* the cells a DXYN at coordinates (vx, vy) flips: bit b (0 the most
\* significant) of row r goes to column (vx + b) mod 64, row ((vy mod 32) + r) mod 32
SpriteCells(vx, vy, n) ==
    { << (vx + b) % WIDTH, ((vy % HEIGHT) + r) % HEIGHT >> :
         <<r, b>> \in { rb \in (0..(n - 1)) \X (0..7) :
                          BitAt(MemRead(memory, i + rb[1]), 7 - rb[2]) = 1 } }

SymDiff(a, b) == (a \ b) \cup (b \ a)

\* C7: DXYN flips exactly the cells of SpriteCells and succeeds, for every Vx
\* and Vy in 0..255 and n in 0..15, with no overflow for Vx near 255.
C7_DrawWraps ==
    [][(TickStep /\ state.tag = "Running" /\ pc + 2 < MEMORY_SIZE
          /\ Instr(WordAt(pc)) = "DRW" /\ i + (WordAt(pc) % 16) <= MEMORY_SIZE) =>
         LET n == nibbles(WordAt(pc))
             vx == IF n[2] = FLAGS_REGISTER THEN 0 ELSE v_registers[n[2]]
             vy == IF n[3] = FLAGS_REGISTER THEN 0 ELSE v_registers[n[3]]
         IN /\ result' = "Ok"
            /\ vram' = SymDiff(vram, SpriteCells(vx, vy, n[4]))
    ]_vars

----------------------------------------------------------------------------
(* SpecCall: load_rom and tick over programs of calls and returns *)

\* a call to a subroutine that returns at once, by 2NNN and by 0NNN
RomCallRet == Rom(<< \h2204, \h1202, \h00EE >>)
RomSysRet == Rom(<< \h0204, \h1202, \h00EE >>)

\* `depth` nested calls, call k at 0x200 + 4k to 0x200 + 4(k + 1), by 0NNN
\* and 2NNN in turn; each is followed by the 00EE that ends its caller (a
\* loop after the first); the innermost subroutine is a lone 00EE
RomChain(depth) ==
    Rom([w \in 1..(2 * depth + 1) |->
           CASE w = 2 * depth + 1 -> \h00EE
             [] w = 2 -> \h1202
             [] w % 2 = 0 -> \h00EE
             [] OTHER -> (IF w % 4 = 1 THEN \h0000 ELSE \h2000) + ENTRY_POINT + 2 * (w + 1)])

\* a call to the last word of memory, where a 00EE sits
RomCallEnd == RomJumpTo(RomCapacity, \hFFE, \h00EE)

CallRoms == { RomCallRet, RomSysRet, RomChain(STACK_SIZE), RomChain(STACK_SIZE + 1),
              [RomCallEnd EXCEPT !.data[0] = \h2F] }

NextCall ==
    \/ calls < ChainCalls /\ \E rom \in CallRoms : LoadRom(rom)
    \/ calls < ChainCalls /\ Tick

SpecCall == Built(SeedSample) /\ [][NextCall]_vars

\* 2NNN, or 0NNN other than 00E0 and 00EE
IsCall(op) == op \div 4096 = 2 \/ (op \div 4096 = 0 /\ op # \h00E0 /\ op # \h00EE)

Front(st) == SubSeq(st, 1, Len(st) - 1)

\* a tick that gets to run the instruction at pc
Executes == TickStep /\ state.tag = "Running" /\ pc + 2 < MEMORY_SIZE

\* C8: a call at address a with room on the stack pushes a + 2 and jumps; a
\* 00EE executed next returns to a + 2 and leaves the stack as it was before
\* the call; and every 00EE returns to the innermost pending call, so nested
\* pairs unwind in order up to the stack capacity.
C8_CallReturn ==
    [][/\ (Executes /\ IsCall(WordAt(pc)) /\ Len(stack) < STACK_SIZE) =>
            /\ result' = "Ok"
            /\ stack' = Append(stack, pc + 2)
            /\ pc' = WordAt(pc) % 4096
       /\ (Executes /\ WordAt(pc) = \h00EE /\ lastCall = << "tick" >>
             /\ result = "Ok" /\ IsCall(log.op)) =>
            /\ result' = "Ok"
            /\ pc' = log.pc + 2
            /\ Append(stack', log.pc + 2) = stack
       /\ (Executes /\ WordAt(pc) = \h00EE /\ stack # << >>) =>
            /\ result' = "Ok"
            /\ pc' = stack[Len(stack)]
            /\ stack' = Front(stack)
    ]_vars

\* the chain of STACK_SIZE nested calls has unwound to the instruction after
\* the first call, with the stack empty again
C8_Witness ==
    /\ lastCall = << "tick" >> /\ result = "Ok"
    /\ log = [pc |-> ENTRY_POINT + 6, op |-> \h00EE]
    /\ pc = ENTRY_POINT + 2 /\ stack = << >>
    /\ calls = 2 * STACK_SIZE + 1

----------------------------------------------------------------------------
(* SpecLoad: load_rom and tick, with ROMs that do not fit; SpecOps: one    *)
(* load_rom, then ticks and unrecognized opcodes executed by hand          *)

\* timers, I, a glyph drawn, a call, unrecognized opcodes around a key wait
RomBusy ==
    Rom(<< \h6A05, \hFA15, \hFA18, \hA005, \hD015, \h220E, \h120C,
           \h5AB1, \hFA00, \hF30A, \h8AF8, \h1216 >>)

\* an unrecognized opcode in the last word of memory
RomUnrecEnd == RomJumpTo(RomCapacity, \hFFE, \h5011)

\* a ROM as long as memory
RomHuge == [len |-> MEMORY_SIZE, data |-> [k \in {0} |-> \h12]]

LoadRoms == { RomBusy, RomUnrecEnd, RomOversized, RomHuge }

OpsRoms == { RomBusy, RomUnrecEnd }

\* the opcodes the table has no row for, by pattern
Unrecognized(op) ==
    LET n == nibbles(op) IN
    \/ n[1] = 5 /\ n[4] # 0
    \/ n[1] = 8 /\ n[4] \in {8, 9, 10, 11, 12, 13, 15}
    \/ n[1] = 9 /\ n[4] # 0
    \/ n[1] = 14 /\ op % 256 \notin {\h9E, \hA1}
    \/ n[1] = 15 /\ op % 256 \notin {\h07, \h0A, \h15, \h18, \h1E, \h29, \h33, \h55, \h65}

\* the unrecognized opcodes a caller executes by hand
OpsXs == {10, 15}
OpsLows == { \h00, \h06, \h0B, \h0E, \h17, \h19, \h28, \h34, \h50, \h56,
             \h66, \h75, \h91, \h9F, \hA0, \hAE, \hE0, \hFF }
UnrecOps ==
    { op \in { h * 4096 + x * 256 + y * 16 + n :
                 h \in {5, 8, 9}, x \in OpsXs, y \in OpsXs, n \in 0..15 }
             \cup { h * 4096 + x * 256 + low : h \in {14, 15}, x \in OpsXs, low \in OpsLows } :
        Unrecognized(op) }

NextLoad ==
    \/ calls < LoadCalls /\ \E rom \in LoadRoms : LoadRom(rom)
    \/ calls < LoadCalls /\ Tick

SpecLoad == Built(SeedSample) /\ [][NextLoad]_vars

NextOps ==
    \/ calls = 0 /\ \E rom \in OpsRoms : LoadRom(rom)
    \/ calls < OpsCalls /\ Tick
    \/ calls < OpsCalls /\ lastCall[1] = "tick" /\ \E op \in UnrecOps : ExecuteOpcode(op)

SpecOps == Built(SeedSample) /\ [][NextOps]_vars

LoadFails == lastCall'[1] = "load_rom" /\ result' = "RomTooLarge"

\* C9 as stated: a load_rom that returns RomTooLarge leaves pc, I, the V
\* registers, the timers, the stack, the display and the execution state as
\* they were (memory, which the Memory collaborator decides, is left out).
C9_Original ==
    [][(lastCall'[1] = "load_rom" /\ lastCall'[2] > MEMORY_SIZE - ENTRY_POINT) =>
         /\ result' = "RomTooLarge"
         /\ pc' = pc /\ i' = i /\ v_registers' = v_registers
         /\ sound_timer' = sound_timer /\ delay_timer' = delay_timer
         /\ stack' = stack /\ vram' = vram /\ state' = state
    ]_vars

\* C9 amended: a load_rom that returns RomTooLarge leaves the execution state
\* as it was and has reset the rest: pc = 0x200, I = 0, every V register and
\* both timers 0, the stack empty, the display clear with updated set.
C9_FailedLoadResets ==
    [][/\ (lastCall'[1] = "load_rom" /\ lastCall'[2] > MEMORY_SIZE - ENTRY_POINT) =>
            result' = "RomTooLarge"
       /\ LoadFails =>
            /\ state' = state
            /\ pc' = ENTRY_POINT /\ i' = 0
            /\ \A r \in Regs : v_registers'[r] = 0
            /\ sound_timer' = 0 /\ delay_timer' = 0
            /\ stack' = << >>
            /\ vram' = {} /\ updated'
            /\ keyboard' = keyboard /\ rand' = rand
    ]_vars

\* an oversized ROM was refused while the emulator waited for a key, right
\* after the tick that ran the FX0A of RomBusy
C9_Witness ==
    /\ lastCall = << "load_rom", MEMORY_SIZE - ENTRY_POINT + 1 >>
    /\ result = "RomTooLarge"
    /\ state = StateWaitingKey(3)
    /\ log = [pc |-> ENTRY_POINT + 18, op |-> \hF30A]
    /\ pc = ENTRY_POINT /\ stack = << >> /\ vram = {}

\* what an unrecognized opcode leaves alone
OpFrame ==
    /\ i' = i /\ v_registers' = v_registers /\ stack' = stack /\ memory' = memory
    /\ vram' = vram /\ state' = state /\ rand' = rand

\* C10 as stated: an opcode that matches no pattern returns Ok, advances pc
\* by exactly 2 and changes no V register, I, stack, memory, display cell
\* nor the execution state.
C10_Original ==
    [][/\ (Executes /\ Unrecognized(WordAt(pc))) =>
            (result' = "Ok" /\ pc' = pc + 2 /\ OpFrame)
       /\ (TickStep /\ state.tag = "Running" /\ pc + 2 = MEMORY_SIZE
             /\ Unrecognized(WordAt(pc))) =>
            (result' = "Ok" /\ pc' = pc + 2 /\ OpFrame)
       /\ (lastCall'[1] = "execute_opcode" /\ Unrecognized(lastCall'[2])) =>
            (result' = "Ok" /\ pc' = pc + 2 /\ OpFrame)
    ]_vars

\* C10 amended: so it is while pc + 2 is an address (pc <= 0xFFD); at
\* pc = 0xFFE and above the opcode returns AddressOutOfRange and changes
\* nothing, pc included.
C10_UnrecognizedNoOp ==
    [][/\ (Executes /\ Unrecognized(WordAt(pc))) =>
            (result' = "Ok" /\ pc' = pc + 2 /\ OpFrame)
       /\ (TickStep /\ state.tag = "Running" /\ pc + 2 = MEMORY_SIZE
             /\ Unrecognized(WordAt(pc))) =>
            (result' = "AddressOutOfRange" /\ pc' = pc /\ OpFrame)
       /\ (lastCall'[1] = "execute_opcode" /\ Unrecognized(lastCall'[2])) =>
            /\ OpFrame
            /\ sound_timer' = sound_timer /\ delay_timer' = delay_timer
            /\ updated' = updated
            /\ IF pc + 2 < MEMORY_SIZE THEN result' = "Ok" /\ pc' = pc + 2
               ELSE result' = "AddressOutOfRange" /\ pc' = pc
    ]_vars

\* 8AF8 was executed by hand on an emulator with registers set, a glyph on
\* the display and a return address on the stack
C10_Witness ==
    /\ lastCall = << "execute_opcode", \h8AF8 >> /\ result = "Ok"
    /\ v_registers[10] = 5 /\ vram # {} /\ stack # << >> /\ i = 5
    /\ pc = ENTRY_POINT + 18

----------------------------------------------------------------------------
(* SpecFetch: load_rom, tick and the keyboard over programs that run pc to *)
(* the last byte of memory, where the 2-byte fetch is out of bounds        *)

FetchCalls == 8

\* a ROM of `len` bytes: the words ws at the entry point, zeros, and the
\* word w at address `at`
RomAt(len, ws, at, w) ==
    LET off == at - ENTRY_POINT
        byte(k) == CASE k < 2 * Len(ws) /\ k % 2 = 0 -> ws[(k \div 2) + 1] \div 256
                     [] k < 2 * Len(ws) /\ k % 2 = 1 -> ws[(k \div 2) + 1] % 256
                     [] k = off -> w \div 256
                     [] k = off + 1 -> w % 256
                     [] OTHER -> 0
        used == (0..(2 * Len(ws) - 1)) \cup {off, off + 1}
    IN [len |-> len, data |-> [k \in {j \in used : byte(j) # 0} |-> byte(k)]]

\* both timers set to 5, then a jump to the last byte of memory
RomFetchRun == Rom(<< \h6A05, \hFA15, \hFA18, \h1FFF >>)

\* both timers set to 5, then a key wait into V3 that ends at the last byte
RomFetchKey == RomAt(RomCapacity - 1, << \h6A05, \hFA15, \hFA18, \h1FFD >>, \hFFD, \hF30A)

FetchRoms == { RomFetchRun, RomFetchKey, RomKeys }

FetchKeySets == { {}, {2, 7}, {0} }

NextFetch ==
    \/ calls < FetchCalls /\ \E rom \in FetchRoms : LoadRom(rom)
    \/ calls < FetchCalls /\ Tick
    \/ \E ks \in FetchKeySets : SetKeys(ks)

SpecFetch == Built(SeedSample) /\ [][NextFetch]_vars

\* a tick that goes on to the fetch, and whose fetch is out of bounds
FetchFails ==
    /\ TickStep
    /\ state.tag = "Running" \/ (state.tag = "WaitingKey" /\ keyboard # {})
    /\ ~RangeInBounds(pc, 2)

\* C11 as stated: a tick whose fetch is out of bounds returns the error and
\* leaves the V registers, I, both timers, the stack, memory, the display and
\* the execution state as they were.
C11_Original ==
    [][FetchFails =>
         /\ result' = "MemoryOutOfBounds"
         /\ v_registers' = v_registers /\ i' = i
         /\ delay_timer' = delay_timer /\ sound_timer' = sound_timer
         /\ stack' = stack /\ memory' = memory
         /\ vram' = vram /\ updated' = updated
         /\ state' = state
    ]_vars

\* C11: a tick whose fetch is out of bounds returns the error with pc, I, the
\* stack, memory and the display as they were, but after the steps that come
\* before the fetch: both timers have been stepped down, and a key wait has
\* stored its key in Vx and become Running.
C11_FetchFailure ==
    [][FetchFails =>
         /\ result' = "MemoryOutOfBounds" /\ log' = NoLog
         /\ pc' = pc /\ i' = i /\ stack' = stack /\ memory' = memory
         /\ vram' = vram /\ updated' = updated /\ rand' = rand
         /\ delay_timer' = StepDown(delay_timer)
         /\ sound_timer' = StepDown(sound_timer)
         /\ state' = StateRunning
         /\ v_registers' = IF state.tag = "WaitingKey"
                           THEN [v_registers EXCEPT ![state.x] = MinKey]
                           ELSE v_registers
    ]_vars

\* the key wait at the end of memory saw keys 2 and 7: the tick failed at the
\* fetch with V3 = 2, the state Running and the timers stepped down
C11_Witness ==
    /\ lastCall = << "tick" >> /\ result = "MemoryOutOfBounds"
    /\ pc = MEMORY_SIZE - 1 /\ keyboard = {2, 7}
    /\ state = StateRunning /\ v_registers[3] = 2
    /\ delay_timer = 1 /\ sound_timer = 2

----------------------------------------------------------------------------
(* SpecAlu: load_rom and tick over programs that load V0, V1 and VF and    *)
(* then execute one 8XY4, 8XY5 or BNNN                                     *)

AluCalls == 5

\* V0 = a, V1 = b, VF = f, then the opcode op
AluRom(a, b, f, op) == Rom(<< \h6000 + a, \h6100 + b, \h6F00 + f, op >>)

\* V0 = a, then BNNN
JumpRom(a, n) == Rom(<< \h6000 + a, \hB000 + n >>)

AluValues == { \h01, \h05, \h0A, \hFF }

AluFlags == { \h00, \h01, \h05, \hFF }

AluRegs == { 0, 1, FLAGS_REGISTER }

AluOps == { \h8000 + x * 256 + y * 16 + low : x \in AluRegs, y \in AluRegs, low \in {4, 5} }

JumpOffsets == { \h000, \h100, \hDFB, \hDFC, \hFFF }

AluRoms ==
    { AluRom(a, b, f, op) : a \in AluValues, b \in AluValues, f \in AluFlags, op \in AluOps }
    \cup { JumpRom(a, n) : a \in {\h00, \h01, \hFF}, n \in JumpOffsets }

NextAlu ==
    \/ calls = 0 /\ \E rom \in AluRoms : LoadRom(rom)
    \/ calls < AluCalls /\ Tick

SpecAlu == Built(SeedSample) /\ [][NextAlu]_vars

\* a tick of the Running emulator that executes the instruction `ins` at pc
Runs(ins) ==
    /\ TickStep /\ state.tag = "Running"
    /\ pc + 2 < MEMORY_SIZE
    /\ Instr(WordAt(pc)) = ins

RegX == nibbles(WordAt(pc))[2]

RegY == nibbles(WordAt(pc))[3]

\* C12: after 8XY4, VF is 1 when old Vx + old Vy is above 255 and 0 otherwise;
\* Vx, when x is not F, is the sum mod 256; no other register changes.
C12_AddCarry ==
    [][Runs("ADD_XY") =>
         LET sum == v_registers[RegX] + v_registers[RegY]
         IN /\ result' = "Ok"
            /\ v_registers'[FLAGS_REGISTER] = (IF sum > 255 THEN 1 ELSE 0)
            /\ (RegX # FLAGS_REGISTER => v_registers'[RegX] = sum % 256)
            /\ \A r \in Regs \ {RegX, FLAGS_REGISTER} : v_registers'[r] = v_registers[r]
    ]_vars

\* 8014 ran with V0 = FF and V1 = 01: V0 = 00 and VF = 1
C12_Witness ==
    /\ lastCall = << "tick" >> /\ log = [pc |-> ENTRY_POINT + 6, op |-> \h8014]
    /\ v_registers[0] = 0 /\ v_registers[1] = 1 /\ v_registers[FLAGS_REGISTER] = 1

\* C13 as stated: after 8XY5, VF is 1 when old Vx > old Vy and 0 otherwise,
\* also when x or y is the flags register; Vx, when x is not F, is
\* (old Vx - old Vy) mod 256.
C13_SubBorrow ==
    [][Runs("SUB") =>
         LET vx == v_registers[RegX]
             vy == v_registers[RegY]
         IN /\ result' = "Ok"
            /\ v_registers'[FLAGS_REGISTER] = (IF vx > vy THEN 1 ELSE 0)
            /\ (RegX # FLAGS_REGISTER => v_registers'[RegX] = (vx - vy + 256) % 256)
    ]_vars

\* C14: BNNN at address a sets pc to (a + 2) + nnn + V0, and fails with
\* AddressOutOfRange, pc not wrapped, when that sum is above 4095.
C14_JumpV0Additive ==
    [][Runs("JP_V0") =>
         LET target == (pc + 2) + (WordAt(pc) % 4096) + v_registers[0]
         IN IF target < MEMORY_SIZE
            THEN result' = "Ok" /\ pc' = target
            ELSE result' = "AddressOutOfRange" /\ pc' \in {pc, pc + 2}
    ]_vars

\* B100 at 0x202 ran with V0 = 1: pc = 0x204 + 0x100 + 1, not 0x101
C14_Witness ==
    /\ lastCall = << "tick" >> /\ log = [pc |-> ENTRY_POINT + 2, op |-> \hB100]
    /\ result = "Ok" /\ v_registers[0] = 1
    /\ pc = ENTRY_POINT + 4 + \h101

----------------------------------------------------------------------------
(* SpecTimer: load_rom, tick and the keyboard over a program that sets and *)
(* reads the timers and waits for a key                                    *)

TimerCalls == 9

\* DT = 5, ST = 1, V1 = DT, a key wait into V2, V3 = DT, DT = V2, a loop
RomTimers ==
    Rom(<< \h6A05, \hFA15, \h6B01, \hFB18, \hF107, \hF20A, \hF307, \hF215, \h1208 >>)

TimerRoms == { RomTimers, RomFetchRun, RomOversized }

TimerKeySets == { {}, {4} }

NextTimer ==
    \/ calls < TimerCalls /\ \E rom \in TimerRoms : LoadRom(rom)
    \/ calls < TimerCalls /\ Tick
    \/ \E ks \in TimerKeySets : SetKeys(ks)

SpecTimer == Built(SeedSample) /\ [][NextTimer]_vars

\* the tick goes past the state check to the timers
ReachesTimers ==
    state.tag = "Running" \/ (state.tag = "WaitingKey" /\ keyboard # {})

\* the tick fetches the instruction `ins` and runs its arm
Reaches(ins) ==
    /\ ReachesTimers
    /\ pc + 2 < MEMORY_SIZE
    /\ Instr(WordAt(pc)) = ins

\* C15: a tick that goes on to execute steps each timer down by one when it
\* is not zero and leaves it at zero otherwise, each on its own and before the
\* instruction runs (FX07 reads the stepped value, FX15 and FX18 overwrite
\* it); no other tick and no keyboard change moves a timer, and load_rom
\* zeroes both.
C15_TimersStep ==
    [][/\ (TickStep /\ ReachesTimers) =>
            /\ delay_timer' = IF Reaches("LD_DT_X") THEN v_registers'[RegX]
                              ELSE StepDown(delay_timer)
            /\ sound_timer' = IF Reaches("LD_ST_X") THEN v_registers'[RegX]
                              ELSE StepDown(sound_timer)
            /\ (Reaches("LD_X_DT") => v_registers'[RegX] = StepDown(delay_timer))
       /\ (TickStep /\ ~ReachesTimers) =>
            (delay_timer' = delay_timer /\ sound_timer' = sound_timer)
       /\ lastCall'[1] = "load_rom" => (delay_timer' = 0 /\ sound_timer' = 0)
       /\ lastCall'[1] = "keyboard" =>
            (delay_timer' = delay_timer /\ sound_timer' = sound_timer)
       /\ delay_timer' \in 0..255 /\ sound_timer' \in 0..255
    ]_vars

\* the sixth tick ran F20A: F107, one tick before, had read V1 = 2 from a DT
\* that went 5, 4, 3, 2, and DT is now 1; ST, set to 1 at the fourth tick,
\* reached 0 at the fifth and stays there
C15_Witness ==
    /\ lastCall = << "tick" >> /\ log = [pc |-> ENTRY_POINT + 10, op |-> \hF20A]
    /\ v_registers[1] = 2 /\ delay_timer = 1 /\ sound_timer = 0

----------------------------------------------------------------------------
(* SpecStack: load_rom and tick over programs that return with nothing to  *)
(* return to and that call past the capacity of the stack                  *)

StackCalls == 19

\* a return on the empty stack, then a subroutine that calls itself
RomRetThenRecurse == Rom(<< \h00EE, \h2202 >>)

\* a call, its return, and one return more
RomRetTwice == Rom(<< \h2204, \h00EE, \h00EE >>)

\* the same recursion by 0NNN
RomSysRecurse == Rom(<< \h0200 >>)

StackRoms == { RomRetThenRecurse, RomRetTwice, RomSysRecurse, RomChain(STACK_SIZE + 1) }

NextStack ==
    \/ calls < StackCalls /\ \E rom \in StackRoms : LoadRom(rom)
    \/ calls < StackCalls /\ Tick

SpecStack == Built(SeedSample) /\ [][NextStack]_vars

\* C16: the stack never holds more than STACK_SIZE addresses; a call on the
\* full stack makes tick return StackOverflow, a 00EE on the empty stack makes
\* it return StackUnderflow, and both leave the stack as it was.
C16_StackBounds ==
    [][/\ Len(stack') \in 0..STACK_SIZE
       /\ (Executes /\ IsCall(WordAt(pc)) /\ Len(stack) = STACK_SIZE) =>
            (result' = "StackOverflow" /\ stack' = stack)
       /\ (Executes /\ WordAt(pc) = \h00EE /\ Len(stack) = 0) =>
            (result' = "StackUnderflow" /\ stack' = stack)
    ]_vars

\* 19 calls on the first program: its load, the 00EE that underflowed, 16
\* nested calls and the 17th, which overflowed with the 16 addresses kept
C16_Witness ==
    /\ lastCall = << "tick" >> /\ result = "StackOverflow"
    /\ log = [pc |-> ENTRY_POINT + 2, op |-> \h2202]
    /\ stack = [k \in 1..STACK_SIZE |-> ENTRY_POINT + 4]
    /\ calls = STACK_SIZE + 3

----------------------------------------------------------------------------
(* SpecGrid: a consumer draws rows through the display and walks grid()    *)

\* the rows drawn before the grid is walked
GridSets == 1

GridYs == { 1, 31 }

GridValues == { \h80, \hC1 }

NextGrid ==
    \/ calls < GridSets /\ \E y \in GridYs, value \in GridValues : DisplaySet(WIDTH - 4, y, value)
    \/ Grid
    \/ GridNext

SpecGrid == Built(SeedSample) /\ [][NextGrid]_vars

\* C17: grid() starts a walk from the first cell; the call of next() that
\* follows k yielded values yields the cell at column k mod 64, row k div 64
\* while k < 2048, and None from then on, with nothing more yielded.
C17_GridRaster ==
    [][/\ lastCall'[1] = "grid" => iter' = grid
       /\ lastCall'[1] = "next" =>
            LET k == iter.yielded
            IN IF k < WIDTH * HEIGHT
               THEN /\ iter'.item = ItemOf(<< k % WIDTH, k \div WIDTH >> \in vram)
                    /\ iter'.yielded = k + 1
               ELSE /\ iter'.item = "None"
                    /\ iter'.yielded = k
    ]_vars

\* the walk over the display holding the row C1 drawn at (60, 31), which
\* wraps to column 3, has yielded 2048 values and ended
C17_Witness ==
    /\ lastCall = << "next" >> /\ iter.item = "None"
    /\ iter.yielded = WIDTH * HEIGHT
    /\ vram = { <<60, 31>>, <<61, 31>>, <<3, 31>> }

----------------------------------------------------------------------------
(* SpecDisplay: load_rom, tick and execute_opcode over a program that      *)
(* draws and clears, with a consumer that acknowledges the updated flag    *)

DisplayCalls == 9

\* DT = 5, I = the font sprite of 1, then draws of 5 and of 0 rows at
\* (V1, V2) = (0, 0) and clears
RomDrawClear ==
    Rom(<< \h6A05, \hFA15, \hA005, \hD125, \h00E0, \hD120, \hD125, \h00E0, \h1206 >>)

DisplayRoms == { RomDrawClear, RomOversized }

NextDisplay ==
    \/ calls < DisplayCalls /\ \E rom \in DisplayRoms : LoadRom(rom)
    \/ calls < DisplayCalls /\ Tick
    \/ calls < DisplayCalls /\ lastCall[1] = "tick" /\ ExecuteOpcode(\h00E0)
    \/ Acknowledge

SpecDisplay == Built(SeedSample) /\ [][NextDisplay]_vars

\* a step that executes `op`: a tick of the Running emulator with `op` at pc,
\* or the caller's execute_opcode(op)
ExecutesOp(op) ==
    /\ pc + 2 < MEMORY_SIZE
    /\ \/ TickStep /\ state.tag = "Running" /\ WordAt(pc) = op
       \/ lastCall' = << "execute_opcode", op >>

\* C18: executing 00E0 leaves no cell of the 64x32 grid lit and the updated
\* flag true; the V registers (VF too), I, the stack, memory and the state are
\* unchanged, and the timers are moved by nothing but the tick's own step.
C18_ClearScreen ==
    [][ExecutesOp(\h00E0) =>
         /\ result' = "Ok" /\ pc' = pc + 2
         /\ \A x \in 0..(WIDTH - 1), y \in 0..(HEIGHT - 1) : ~get(vram', x, y)
         /\ vram' = VramClear
         /\ updated'
         /\ v_registers' = v_registers /\ i' = i /\ stack' = stack
         /\ memory' = memory /\ state' = state
         /\ delay_timer' = (IF TickStep THEN StepDown(delay_timer) ELSE delay_timer)
         /\ sound_timer' = (IF TickStep THEN StepDown(sound_timer) ELSE sound_timer)
    ]_vars

\* 00E0 was executed right after the tick that drew the sprite: no cell is
\* lit, the flag is set, and VF and DT are what the draw tick left
C18_Witness ==
    /\ lastCall = << "execute_opcode", \h00E0 >> /\ result = "Ok"
    /\ log = [pc |-> ENTRY_POINT + 6, op |-> \hD125]
    /\ vram = VramClear /\ updated
    /\ v_registers[FLAGS_REGISTER] = 1 /\ delay_timer = 3 /\ i = 5

CoreStep == lastCall'[1] \in {"tick", "load_rom", "execute_opcode"}

\* the rows a DXYN at pc gets to draw: at least one
DrawsRow ==
    /\ TickStep /\ state.tag = "Running" /\ pc + 2 < MEMORY_SIZE
    /\ Instr(WordAt(pc)) = "DRW" /\ WordAt(pc) % 16 > 0 /\ AddressFits(i)

\* C20: no step of the core takes the updated flag from true to false, and
\* every step of the core that touches the display (load_rom, 00E0, a DXYN
\* that draws a row, any change of a cell) leaves it true; only the consumer
\* resets it.
C20_UpdatedSticky ==
    [][/\ CoreStep =>
            /\ updated => updated'
            /\ vram' # vram => updated'
            /\ lastCall'[1] = "load_rom" => updated'
            /\ ExecutesOp(\h00E0) => updated'
            /\ DrawsRow => updated'
       /\ (updated /\ ~updated') => lastCall' = << "acknowledge" >>
    ]_vars

\* the consumer has reset the flag and the D120 that follows drew no row: the
\* flag is still false with the state Running
C20_Witness ==
    /\ lastCall = << "tick" >> /\ log = [pc |-> ENTRY_POINT + 10, op |-> \hD120]
    /\ ~updated /\ vram = VramClear /\ state = StateRunning

----------------------------------------------------------------------------
(* SpecRand: load_rom, tick and the keyboard over programs with and        *)
(* without CXKK, from the readings RandSeeds                               *)

RandCalls == 4

\* V1 = 5, V0 = random & FF, V1 = random & 0F, V0 += V1, a loop
RomRand == Rom(<< \h6105, \hC0FF, \hC10F, \h8014, \h1202 >>)

RandRoms == { RomRand, RomBusy }

RandKeySets == { {}, {4} }

NextRand ==
    \/ calls < RandCalls /\ \E rom \in RandRoms : LoadRom(rom)
    \/ calls < RandCalls /\ Tick
    \/ \E ks \in RandKeySets : SetKeys(ks)

SpecRand == Built(RandSeeds) /\ [][NextRand]_vars

\* what the claim lists of an emulator: all of it but the generator
Visible(e) ==
    << e.state, e.memory, e.pc, e.i, e.v_registers, e.delay_timer, e.sound_timer,
       e.stack, e.vram, e.updated >>

\* the emulator built from the seed s2 that took the same calls, while no
\* random byte has been drawn: it differs in the generator only
Twin(s2) == [Self EXCEPT !.rand = s2]

\* C19 as stated: two emulators that agree on state, memory, registers,
\* timers, stack, display and keyboard return the same result and agree on
\* all of these after one tick.
C19_Original ==
    [][TickStep =>
         \A s2 \in SeedSample :
            rand \in Seeds =>
               LET o == tick(Twin(s2), keyboard, overflow_checks)
               IN o.r = result' /\ Visible(o.e) = Visible(Self')
    ]_vars

\* C19: the same with the generator's state among the inputs. Emulators that
\* differ in the generator only return the same result, and agree after a
\* tick that executes no CXKK, which leaves the generator alone; after CXKK
\* each has advanced its generator and holds its low byte & kk in Vx, and
\* they agree on everything else.
C19_TickDeterministic ==
    [][TickStep =>
         \A s2 \in SeedSample :
            rand \in Seeds =>
               LET o == tick(Twin(s2), keyboard, overflow_checks)
                   kk == WordAt(pc) % 256
               IN /\ o.r = result'
                  /\ (s2 = rand => o.e = Self')
                  /\ IF Reaches("RND")
                     THEN /\ rand' = rand_next(rand) /\ o.e.rand = rand_next(s2)
                          /\ v_registers'[RegX] = BitAnd(rand_next(rand)[1], kk, 0)
                          /\ o.e.v_registers[RegX] = BitAnd(rand_next(s2)[1], kk, 0)
                          /\ Visible([o.e EXCEPT !.v_registers[RegX] = 0])
                               = Visible([Self' EXCEPT !.v_registers[RegX] = 0])
                     ELSE /\ rand' = rand /\ o.e.rand = s2
                          /\ Visible(o.e) = Visible(Self')
    ]_vars

\* C0FF ran from the seed 5555: V0 = 198, where the seed 1730209560123456
\* gives 143
C19_Witness ==
    /\ lastCall = << "tick" >> /\ log = [pc |-> ENTRY_POINT + 2, op |-> \hC0FF]
    /\ v_registers[0] = 198 /\ v_registers[1] = 5
    /\ \E s2 \in SeedSample : BitAnd(rand_next(s2)[1], \hFF, 0) = 143

----------------------------------------------------------------------------
(* SpecEnd: load_rom, tick and the keyboard over programs that run into    *)
(* the last words of memory                                                *)

EndCalls == 6

\* a ROM that fills the program space: the words ws at the entry point,
\* zeros, and the words `tail` in the last words of memory
RomEnd(ws, tail) ==
    LET first == RomCapacity - 2 * Len(tail)
        word(k) == IF k < 2 * Len(ws) THEN ws[(k \div 2) + 1]
                   ELSE tail[((k - first) \div 2) + 1]
        byte(k) == IF k % 2 = 0 THEN word(k) \div 256 ELSE word(k) % 256
        used == (0..(2 * Len(ws) - 1)) \cup (first..(RomCapacity - 1))
    IN [len |-> RomCapacity, data |-> [k \in {j \in used : byte(j) # 0} |-> byte(k)]]

\* the skips, on VA = 5, VB = 0 and the key 5
SkipOps == { \h3A05, \h3A06, \h4A05, \h4A06, \h5AB0, \h5AA0, \h9AB0, \h9AA0, \hEA9E, \hEAA1 }

\* what may sit in the last word: a jump, a return, a load, a clear, a skip
LastWords == { \h1200, \h00EE, \h6A07, \h00E0, \h3A05 }

\* VA = 5 and a jump to the skip at 0xFFC, which a jump follows at 0xFFE;
\* VA = 5 and a call of the last word; VA = 5 and a jump to a skip at 0xFFD
EndRoms ==
    { RomEnd(<< \h6A05, \h1FFC >>, << op, \h1200 >>) : op \in SkipOps }
    \cup { RomEnd(<< \h6A05, \h2FFE >>, << op >>) : op \in LastWords }
    \cup { RomAt(RomCapacity, << \h6A05, \h1FFD >>, \hFFD, op) : op \in {\h3A05, \h3A06} }

EndKeySets == { {}, {5} }

NextEnd ==
    \/ calls < EndCalls /\ \E rom \in EndRoms : LoadRom(rom)
    \/ calls < EndCalls /\ Tick
    \/ \E ks \in EndKeySets : SetKeys(ks)

SpecEnd == Built(SeedSample) /\ [][NextEnd]_vars

LAST_WORD == MEMORY_SIZE - 2

IsSkip(op) ==
    Instr(op) \in {"SE_KK", "SNE_KK", "SE_XY", "SNE_XY", "SKP", "SKNP"}

\* whether the skip at pc finds its condition true
SkipTaken ==
    LET op == WordAt(pc)
        vx == v_registers[RegX]
        vy == v_registers[RegY]
        ins == Instr(op)
    IN CASE ins = "SE_KK" -> vx = op % 256
         [] ins = "SNE_KK" -> vx # op % 256
         [] ins = "SE_XY" -> vx = vy
         [] ins = "SNE_XY" -> vx # vy
         [] ins = "SKP" -> vx \in keyboard
         [] ins = "SKNP" -> vx \notin keyboard
         [] OTHER -> FALSE

\* a tick of the Running emulator at the last word: fetched, not executed
LastWordNotRun ==
    (TickStep /\ state.tag = "Running" /\ pc = LAST_WORD) =>
        /\ result' = "AddressOutOfRange"
        /\ log' = [pc |-> pc, op |-> WordAt(pc)]
        /\ pc' = pc /\ i' = i /\ v_registers' = v_registers /\ stack' = stack
        /\ memory' = memory /\ vram' = vram /\ updated' = updated
        /\ rand' = rand /\ state' = state

\* a tick of the Running emulator on a skip with pc + 4 above 4095
SkipNearEnd ==
    /\ TickStep /\ state.tag = "Running"
    /\ pc + 2 < MEMORY_SIZE /\ pc + 4 >= MEMORY_SIZE
    /\ IsSkip(WordAt(pc))

\* C21 as stated: the instruction in the last word is fetched and not run,
\* the tick returning AddressOutOfRange; and a skip fails whenever pc + 4 is
\* above 4095.
C21_Original ==
    [][/\ LastWordNotRun
       /\ SkipNearEnd => result' = "AddressOutOfRange"
    ]_vars

\* C21: the instruction in the last word is fetched and not run, the tick
\* returning AddressOutOfRange with pc and all else but the timers as before;
\* a skip with pc + 4 above 4095 fails, pc left at pc + 2, when its condition
\* holds, and succeeds with pc = pc + 2 when it does not.
C21_LastWordNotRun ==
    [][/\ LastWordNotRun
       /\ SkipNearEnd =>
            /\ result' = (IF SkipTaken THEN "AddressOutOfRange" ELSE "Ok")
            /\ pc' = pc + 2
            /\ v_registers' = v_registers /\ stack' = stack /\ state' = state
    ]_vars

\* 3A06 at 0xFFC did not skip (VA = 5) and left pc at 0xFFE; the tick after
\* it fetched the jump in the last word and failed without jumping
C21_Witness ==
    /\ lastCall = << "tick" >> /\ result = "AddressOutOfRange"
    /\ log = [pc |-> LAST_WORD, op |-> \h1200]
    /\ pc = LAST_WORD /\ v_registers[10] = 5
    /\ WordAt(LAST_WORD - 2) = \h3A06

----------------------------------------------------------------------------
(* SpecWait: a ROM is loaded once and tick is then called for ever, while  *)
(* the keyboard sets and clears keys                                       *)

\* DT = 3, two key waits in a row (into V3, into V4), V4 += 1, a loop to the waits
RomWaitTwice == Rom(<< \h6A03, \hFA15, \hF30A, \hF40A, \h7401, \h1204 >>)

WaitRoms == { RomWaitTwice, RomKeys, RomKeysEnd }

WaitKeySets == { {}, {0}, {2, 7} }

NextWait ==
    \/ state = StateNew /\ \E rom \in WaitRoms : LoadRom(rom)
    \/ TickOn
    \/ \E ks \in WaitKeySets : SetKeys(ks)

\* whether a tick made now would change anything: ENABLED <<TickOn>>_vars,
\* written out as a state predicate
TickWouldStep ==
    /\ Alive
    /\ LET o == tick(Self, keyboard, overflow_checks)
       IN \/ o.e # Self \/ o.r # result \/ o.log # log
          \/ lastCall # << "tick" >> \/ iter # NoIter

\* tick keeps being called: weak fairness of TickOn, which is
\* []<>(~ENABLED <<TickOn>>_vars) \/ []<><<TickOn>>_vars
TickKeepsBeingCalled == []<>(~TickWouldStep) \/ []<><<TickOn>>_vars

SpecWait == Built(SeedSample) /\ [][NextWait]_vars /\ TickKeepsBeingCalled

Waiting == state.tag = "WaitingKey"

\* the state right after a tick that was made with a key set
KeyTick == lastCall = << "tick" >> /\ keyboard # {}

\* C22 as stated: a tick made in a key wait with a key set leaves the
\* emulator Running, and with no key set the wait stays as it is.
C22_Original ==
    [][/\ (TickStep /\ Waiting /\ keyboard # {}) => state' = StateRunning
       /\ (Waiting /\ keyboard = {} /\ keyboard' = {}) => state' = state
    ]_vars

\* the same as a liveness property: from a key wait, one later tick made
\* with a key set is enough for the emulator to be Running at some time
C22_OneKeyTickEnough ==
    [](Waiting /\ ~KeyTick => (<>KeyTick => <>(state.tag = "Running")))

\* C22: a tick made in a key wait with a key set leaves the wait: after it
\* the state is Running, or the wait of the FX0A that this same tick went on
\* to execute; a tick or a keyboard change with no key set leaves the wait
\* as it is, with the same x; and if ticks are made with a key set again and
\* again, every key wait leads to Running.
C22_KeyWaitLive ==
    /\ [][(TickStep /\ Waiting /\ keyboard # {}) =>
            \/ state' = StateRunning
            \/ Reaches("LD_X_K") /\ state' = StateWaitingKey(RegX)]_vars
    /\ [][(Waiting /\ keyboard = {} /\ keyboard' = {}) => state' = state]_vars
    /\ ([]<>KeyTick => [](Waiting => <>(state.tag = "Running")))

\* the second wait in a row has been left: the tick before this one stored
\* key 2 in V3 and entered the wait into V4; this one stored 2 in V4, became
\* Running and ran the 7401 behind the waits
C22_Witness ==
    /\ lastCall = << "tick" >> /\ keyboard = {2, 7}
    /\ state = StateRunning
    /\ log = [pc |-> ENTRY_POINT + 8, op |-> \h7401]
    /\ v_registers[3] = 2 /\ v_registers[4] = 3

====
